---- MODULE Spec2Model ----
(***************************************************************************)
(* A model of the sampling and encoding engine of src/seqmodel.py:         *)
(* GenomicFeatures (is_positive, get_feature_data) and Sampler (__init__,  *)
(* set_mode, _retrieve, sample_background, sample_positive,                *)
(* sample_mixture).                                                        *)
(*                                                                         *)
(* The BED table is a sequence of rows [chr, start, end, strand, feature]. *)
(* The same rows back the pandas data frames of the Sampler and the        *)
(* tabix index of GenomicFeatures.  numpy arrays are functions over        *)
(* 0-based index ranges; floats that the code compares are kept as         *)
(* fractions <<numerator, denominator>>.                                   *)
(***************************************************************************)
EXTENDS Integers, Sequences, FiniteSets, TLC

VARIABLES
    table,             \* the rows of the BED file (Sampler._dup_features_df, GenomicFeatures.data)
    features_df,       \* Sampler._features_df: the rows positive sampling draws from
    training_indices,  \* Sampler._training_indices: one boolean per row of the table
    features_map,      \* GenomicFeatures.features_map: feature name -> channel
    holdout_chrs,      \* the holdout_chrs argument of Sampler.__init__
    radius,            \* Sampler.radius
    window_size,       \* the window_size argument of Sampler.__init__
    padding,           \* Sampler.padding
    randcache,         \* Sampler._randcache: the pool of candidate chromosomes
    mode,              \* the mode argument of the latest set_mode call
    pc,                \* "idle", or "background" inside a recursive sample_background
    depth,             \* number of nested sample_background calls that rejected
    last               \* the latest call, its arguments, draws and outcome

vars == <<table, features_df, training_indices, features_map, holdout_chrs,
          radius, window_size, padding, randcache, mode, pc, depth, last>>

----------------------------------------------------------------------------
(* Bounds of the model *)

\* rows in the BED table
MaxRecords == 2
\* largest radius a Sampler is constructed with
MaxRadius == 2
\* stands for the batch of 2000 names drawn at line 389
BatchSize == 2
\* stands for the retry cap of the specification ("e.g., 100")
RetryCap == 2
\* stands for the interpreter's recursion limit, which ends the recursion of line 402
MaxDepth == RetryCap + 1

----------------------------------------------------------------------------
(* The genome and the domain of the BED rows *)

\* the FASTA file: two chromosomes, the second too short for radius 2
genome ==
    [chr1 |-> <<"A", "G", "C", "T", "N">>,
     chr2 |-> <<"T", "C", "G">>]

chrs == <<"chr1", "chr2">>

Chrs == {chrs[i] : i \in 1..Len(chrs)}

ChrLen(chrom) == Len(genome[chrom])

ChrIndex(chrom) == CHOOSE i \in 1..Len(chrs) : chrs[i] = chrom

MODES == {"all", "train", "test"}

STRAND_SIDES == {"+", "-"}

BedStrands == {"+", "-", "."}

FeatureNames == {"X", "Y"}

Min(a, b) == IF a < b THEN a ELSE b

Max(a, b) == IF a > b THEN a ELSE b

\* every row [start, end) that lies on its chromosome, 0 <= start < end <= length
BedRows ==
    UNION {
        UNION {
            {[chr |-> c, start |-> s, end |-> e, strand |-> st, feature |-> f] :
                e \in (s + 1)..ChrLen(c), st \in BedStrands, f \in FeatureNames}
            : s \in 0..(ChrLen(c) - 1)}
        : c \in Chrs}

\* a tabix-indexed file is sorted by chromosome and start
SortedRows(t) ==
    \A i \in 1..(Len(t) - 1) :
        \/ ChrIndex(t[i].chr) < ChrIndex(t[i + 1].chr)
        \/ /\ t[i].chr = t[i + 1].chr
           /\ t[i].start <= t[i + 1].start

----------------------------------------------------------------------------
(* numpy and Python helpers *)

\* Python's slice.indices: a negative bound counts from the end, then both
\* bounds are clamped to [0, n]
SliceBound(i, n) == IF i < 0 THEN Max(i + n, 0) ELSE Min(i, n)

\* the indices that a[lo:hi] addresses in an axis of length n
SliceRows(lo, hi, n) ==
    {k \in 0..(n - 1) : SliceBound(lo, n) <= k /\ k < SliceBound(hi, n)}

\* np.zeros((n_rows, n_cols))
Zeros(n_rows, n_cols) == [k \in 0..(n_rows - 1) |-> [c \in 0..(n_cols - 1) |-> 0]]

\* encoding[lo:hi, col] = 1
AssignSlice(encoding, lo, hi, col) ==
    LET n == Cardinality(DOMAIN encoding)
        rows == SliceRows(lo, hi, n)
    IN  [k \in DOMAIN encoding |->
            IF k \in rows THEN [encoding[k] EXCEPT ![col] = 1] ELSE encoding[k]]

\* the rows of a matrix in the opposite order
RowReverse(m) ==
    LET n == Cardinality(DOMAIN m) IN [k \in DOMAIN m |-> m[n - 1 - k]]

\* the comparison of line 184 with >= in place of >
ReachesFraction(length, span, threshold) ==
    length * threshold[2] >= span * threshold[1]

\* line 184: length > span * threshold, for a threshold <<numerator, denominator>>
ExceedsFraction(length, span, threshold) ==
    length * threshold[2] > span * threshold[1]

\* pandas' unique(): the distinct values in order of first appearance
RECURSIVE Unique(_)
Unique(s) ==
    IF s = <<>> THEN <<>>
    ELSE LET front == Unique(SubSeq(s, 1, Len(s) - 1))
             x == s[Len(s)]
         IN  IF \E i \in 1..Len(front) : front[i] = x THEN front ELSE Append(front, x)

----------------------------------------------------------------------------
(* GenomicFeatures *)

\* dict([(feat, index) for index, feat in enumerate(features)])
FeaturesMap(features) ==
    [f \in {features[i] : i \in 1..Len(features)} |->
        (CHOOSE i \in 1..Len(features) : features[i] = f) - 1]

\* tabix raises TabixError for a sequence name that the index does not hold
TabixError(data, chrom) == ~ \E i \in 1..Len(data) : data[i].chr = chrom

\* self.data.query(chrom, start, end): the rows overlapping [start, end), in file order
Query(data, chrom, start, end) ==
    SelectSeq(data, LAMBDA r : r.chr = chrom /\ r.start < end /\ r.end > start)

\* the for loop of is_positive over the queried rows
RECURSIVE AnyRowExceeds(_, _, _, _)
AnyRowExceeds(rows, start, end, threshold) ==
    IF rows = <<>> THEN FALSE
    ELSE LET row == Head(rows)
             feat_start == row.start
             feat_end == row.end
             section_start == Max(feat_start, start)
             section_end == Min(feat_end, end)
         IN  IF ExceedsFraction(section_end - section_start, end - start - 1, threshold)
             THEN TRUE
             ELSE AnyRowExceeds(Tail(rows), start, end, threshold)

is_positive(data, chrom, start, end, threshold) ==
    IF TabixError(data, chrom) THEN FALSE
    ELSE AnyRowExceeds(Query(data, chrom, start, end), start, end, threshold)

\* the for loop of get_feature_data on the '+' strand
RECURSIVE EncodeForward(_, _, _, _, _)
EncodeForward(encoding, rows, fmap, start, end) ==
    IF rows = <<>> THEN encoding
    ELSE LET row == Head(rows)
             feat_start == row.start - start
             feat_end == row.end - start
             feat_index == fmap[row.feature]
         IN  EncodeForward(AssignSlice(encoding, feat_start, feat_end, feat_index),
                           Tail(rows), fmap, start, end)

\* the for loop of get_feature_data on the '-' strand
RECURSIVE EncodeReverse(_, _, _, _, _)
EncodeReverse(encoding, rows, fmap, start, end) ==
    IF rows = <<>> THEN encoding
    ELSE LET row == Head(rows)
             feat_start == end - row.end
             feat_end == end - row.start
             feat_index == fmap[row.feature]
         IN  EncodeReverse(AssignSlice(encoding, feat_start, feat_end, feat_index),
                           Tail(rows), fmap, start, end)

\* get_feature_data raises ValueError for a strand that is neither '+' nor '-',
\* unless the query has already raised the TabixError that it catches
get_feature_data_raises(data, chrom, strand) ==
    ~ TabixError(data, chrom) /\ strand \notin {"+", "-"}

get_feature_data(data, fmap, chrom, start, end, strand) ==
    LET n_features == Cardinality(DOMAIN fmap)
        encoding == Zeros(end - start, n_features)
    IN  IF TabixError(data, chrom) THEN encoding
        ELSE IF strand = "+"
             THEN EncodeForward(encoding, Query(data, chrom, start, end), fmap, start, end)
             ELSE EncodeReverse(encoding, Query(data, chrom, start, end), fmap, start, end)

----------------------------------------------------------------------------
(* The record of a call *)

NoMatrix == Zeros(0, 0)

NoCall ==
    [op |-> "none", outcome |-> "none", chr |-> "none", start |-> 0, end |-> 0,
     position |-> 0, strand |-> "none", threshold |-> <<0, 1>>, row |-> 0,
     positive |-> FALSE, labels |-> NoMatrix, seq_start |-> 0, seq_end |-> 0,
     sequence |-> <<>>]

----------------------------------------------------------------------------
(* Sampler *)

\* lines 326-330: the padding on each side of the bin (Python 2 integer division)
InitPadding(r, w) ==
    LET remaining_space == w - r * 2 + 1
    IN  IF remaining_space > 0 THEN remaining_space \div 2 ELSE 0

\* line 315: ~chr.isin(holdout_chrs), one boolean per row
TrainingIndices(df, holdout) == [i \in 1..Len(df) |-> df[i].chr \notin holdout]

\* df[indices] with a boolean mask: the rows whose mask entry is true, in order
RECURSIVE MaskSelect(_, _)
MaskSelect(df, indices) ==
    IF df = <<>> THEN <<>>
    ELSE LET n == Len(df)
             front == MaskSelect(SubSeq(df, 1, n - 1), SubSeq(indices, 1, n - 1))
         IN  IF indices[n] THEN Append(front, df[n]) ELSE front

\* a set_mode that filters the current view instead of the duplicate
set_mode_of_view(df, dup, training, m) ==
    IF m = "all" THEN df
    ELSE LET keep == IF m = "train" THEN MaskSelect(dup, training)
                     ELSE MaskSelect(dup, [i \in 1..Len(training) |-> ~ training[i]])
         IN  SelectSeq(df, LAMBDA r : \E i \in 1..Len(keep) : keep[i] = r)

\* the value of self._features_df after set_mode(m)
set_mode(df, dup, training, m) ==
    IF m = "all" THEN df
    ELSE IF m = "train" THEN MaskSelect(dup, training)
    ELSE MaskSelect(dup, [i \in 1..Len(training) |-> ~ training[i]])

\* _retrieve with sequence_only = False: the windows and the label matrix
retrieve(op, row, chrom, position, strand) ==
    [NoCall EXCEPT
        !.op = op, !.outcome = "sample", !.row = row, !.chr = chrom,
        !.position = position, !.strand = strand,
        !.seq_start = position - radius - padding,
        !.seq_end = position + radius + padding + 1,
        !.start = position - radius,
        !.end = position + radius + 1,
        !.labels = get_feature_data(table, features_map, chrom,
                                    position - radius, position + radius + 1, strand)]

\* np.random.randint(low, high): the values it can return; none when low >= high,
\* where it raises ValueError
randint(low, high) == low..(high - 1)

\* int(row["start"] + np.random.uniform() * gene_length), uniform() in [0, 1)
RandomPositions(row) ==
    LET gene_length == row.end - row.start
    IN  {row.start + k : k \in 0..(gene_length - 1)}

\* the strand of a row, drawn from the two sides when the row says '.'
RowStrands(row) == IF row.strand = "." THEN STRAND_SIDES ELSE {row.strand}

\* lines 409-427 once a row index can be drawn: every sample the draws can give
PositiveDraws(df) ==
    UNION {
        {retrieve("sample_positive", randind + 1, df[randind + 1].chr, position, strand) :
            position \in RandomPositions(df[randind + 1]),
            strand \in RowStrands(df[randind + 1])}
        : randind \in randint(0, Len(df))}

\* a sample_positive that falls back on the full table when the view is empty
sample_positive_fallback(df) ==
    IF randint(0, Len(df)) = {}
    THEN {[NoCall EXCEPT !.op = "sample_positive", !.outcome = "ValueError"]}
            \cup PositiveDraws(table)
    ELSE PositiveDraws(df)

\* the outcomes of sample_positive on the view df
sample_positive(df) ==
    IF randint(0, Len(df)) = {}
    THEN {[NoCall EXCEPT !.op = "sample_positive", !.outcome = "ValueError"]}
    ELSE PositiveDraws(df)

\* lines 397-399 pass self.radius where is_positive takes its threshold
BackgroundThreshold == <<radius, 1>>

\* a range that also holds its upper end, len(chromosome) - self.radius
BackgroundPositionsInclusive(randchr) == radius..(ChrLen(randchr) - radius)

\* range(self.radius, len(chromosome) - self.radius)
BackgroundPositions(randchr) == radius..(ChrLen(randchr) - radius - 1)

\* a refill that does not wait for the pool to be empty: it draws a new batch
\* as soon as one name is left
refill_early(cache) ==
    IF Len(cache) <= 1 THEN [1..BatchSize -> Chrs] ELSE {cache}

\* lines 387-389: an empty pool becomes a batch of names drawn from genome.chrs
\* with replacement; a pool that holds names is left as it is
refill(cache) ==
    IF Len(cache) = 0 THEN [1..BatchSize -> Chrs] ELSE {cache}

\* one execution of the body of sample_background at recursion depth `depth`
BackgroundAttempt ==
    \E cache \in refill(randcache) :
        LET randchr == cache[Len(cache)]
        IN  /\ randcache' = SubSeq(cache, 1, Len(cache) - 1)
            /\ IF BackgroundPositions(randchr) = {}
               THEN /\ last' = [NoCall EXCEPT !.op = "sample_background",
                                              !.outcome = "ValueError", !.chr = randchr]
                    /\ pc' = "idle"
                    /\ depth' = 0
               ELSE \E randpos \in BackgroundPositions(randchr), randstrand \in STRAND_SIDES :
                        IF is_positive(table, randchr, randpos - radius,
                                       randpos + radius + 1, BackgroundThreshold)
                        THEN /\ last' = [NoCall EXCEPT !.op = "sample_background",
                                                       !.outcome = "rejected",
                                                       !.chr = randchr,
                                                       !.position = randpos]
                             /\ pc' = "background"
                             /\ depth' = depth + 1
                        ELSE /\ last' = retrieve("sample_background", 0, randchr,
                                                 randpos, randstrand)
                             /\ pc' = "idle"
                             /\ depth' = 0

----------------------------------------------------------------------------
(* The Sampler as a state machine *)

\* rows of one base at the start of a chromosome, on the forward strand
FirstBaseRows ==
    {r \in BedRows : r.start = 0 /\ r.end = 1 /\ r.strand = "+"}

\* the sorted tables of Rows with exactly n rows
TablesOf(Rows, n) == {t \in [1..n -> Rows] : SortedRows(t)}

\* a lone row fills channel 0 whatever its feature is called: it is called "X"
LoneRows == {r \in BedRows : r.feature = "X"}

\* the tables a Sampler is constructed from: every table of at most one row,
\* and the tables of up to MaxRecords one-base rows
Tables ==
    TablesOf(LoneRows, 0) \cup TablesOf(LoneRows, 1)
        \cup UNION {TablesOf(FirstBaseRows, n) : n \in 2..MaxRecords}

\* Sampler.__init__(table, holdout, radius = r, window_size = w, mode = m)
Construct(t, h, r, w, m) ==
    /\ table = t
    /\ holdout_chrs = h
    /\ radius = r
    /\ window_size = w
    /\ mode = m
    /\ training_indices = TrainingIndices(t, h)
    /\ features_map = FeaturesMap(Unique([i \in 1..Len(t) |-> t[i].feature]))
    /\ padding = InitPadding(r, w)
    /\ features_df = set_mode(t, t, TrainingIndices(t, h), m)
    /\ randcache = <<>>
    /\ pc = "idle"
    /\ depth = 0

Init ==
    /\ \E t \in Tables, h \in SUBSET Chrs, r \in 1..MaxRadius, m \in MODES :
          Construct(t, h, r, 2 * r + 1, m)
    /\ last = NoCall

config == <<table, training_indices, features_map, holdout_chrs, radius,
            window_size, padding>>

\* a set_mode that filters the duplicate table in place
SetModeInPlace(m) ==
    /\ pc = "idle"
    /\ features_df' = set_mode(features_df, table, training_indices, m)
    /\ table' = features_df'
    /\ mode' = m
    /\ last' = [NoCall EXCEPT !.op = "set_mode"]
    /\ UNCHANGED <<training_indices, features_map, holdout_chrs, radius,
                   window_size, padding, randcache, pc, depth>>

SetMode(m) ==
    /\ pc = "idle"
    /\ features_df' = set_mode(features_df, table, training_indices, m)
    /\ mode' = m
    /\ last' = [NoCall EXCEPT !.op = "set_mode"]
    /\ UNCHANGED <<config, randcache, pc, depth>>

SamplePositive ==
    /\ pc = "idle"
    /\ last' \in sample_positive(features_df)
    /\ UNCHANGED <<config, features_df, mode, randcache, pc, depth>>

SampleBackground ==
    /\ pc = "idle"
    /\ BackgroundAttempt
    /\ UNCHANGED <<config, features_df, mode>>

\* line 402: the recursive call after a rejected candidate
SampleBackgroundRetry ==
    /\ pc = "background"
    /\ IF depth < MaxDepth
       THEN BackgroundAttempt
       ELSE /\ last' = [NoCall EXCEPT !.op = "sample_background",
                                      !.outcome = "RuntimeError"]
            /\ pc' = "idle"
            /\ depth' = 0
            /\ UNCHANGED randcache
    /\ UNCHANGED <<config, features_df, mode>>

\* line 429: the default positive_proportion, in halves
positive_proportion == 1

\* np.random.uniform() < positive_proportion, both in halves; uniform() in [0, 1)
SampleMixture ==
    /\ pc = "idle"
    /\ \E uniform \in 0..1 :
          IF uniform < positive_proportion
          THEN /\ last' \in sample_positive(features_df)
               /\ UNCHANGED <<randcache, pc, depth>>
          ELSE BackgroundAttempt
    /\ UNCHANGED <<config, features_df, mode>>

Next ==
    \/ \E m \in MODES : SetMode(m)
    \/ SamplePositive
    \/ SampleBackground
    \/ SampleBackgroundRetry
    \/ SampleMixture

Spec == Init /\ [][Next]_vars

----------------------------------------------------------------------------
(* Properties of the Sampler, checked under Spec *)

\* line 153: the default of is_positive, the only threshold in [0, 1] the code holds
OverlapThreshold == <<1, 2>>

\* C1: whenever the latest set_mode (or the construction) asked for "train", the
\* active view is exactly the rows of the full table whose chromosome is not held
\* out, and for "test" exactly the rows whose chromosome is held out, whatever
\* modes were set before.
C1_TrainTestViewFromFullTable ==
    /\ mode = "train" =>
          features_df = SelectSeq(table, LAMBDA r : r.chr \notin holdout_chrs)
    /\ mode = "test" =>
          features_df = SelectSeq(table, LAMBDA r : r.chr \in holdout_chrs)

\* a set_mode("test") that kept one of two rows
C1_Witness ==
    /\ last.op = "set_mode"
    /\ mode = "test"
    /\ Len(table) = 2
    /\ Len(features_df) = 1

\* C2: after set_mode("all") the active view is the full table, whatever mode
\* was active before.
C2_AllViewIsFullTable ==
    (last.op = "set_mode" /\ mode = "all") => features_df = table

\* C3: a sample returned by sample_background has a label window
\* [position - radius, position + radius + 1) that is_positive finds not
\* positive at the overlap threshold in [0, 1].
C3_BackgroundNeverPositive ==
    (last.op = "sample_background" /\ last.outcome = "sample") =>
        ~ is_positive(table, last.chr, last.position - radius,
                      last.position + radius + 1, OverlapThreshold)

\* C4: one sample_background call rejects at most RetryCap candidates.
C4_RejectionsCapped == depth <= RetryCap

\* C7: a sample of sample_positive has its position inside the drawn row and a 1
\* at the centre row (index radius) of the label matrix in the row's channel.
C7_PositiveCentreLabelled ==
    (last.op = "sample_positive" /\ last.outcome = "sample") =>
        LET row == features_df[last.row]
        IN  /\ row.start <= last.position
            /\ last.position < row.end
            /\ last.labels[radius][features_map[row.feature]] = 1

\* C10: sample_positive on an empty active view fails (the ValueError that
\* np.random.randint(0, 0) raises), returns no sample, starts no retry and leaves
\* the mode, the active view and the chromosome pool as they were.
C10_EmptyViewFails ==
    [][(pc = "idle" /\ Len(features_df) = 0 /\ last'.op = "sample_positive") =>
            /\ last'.outcome = "ValueError"
            /\ pc' = "idle"
            /\ depth' = depth
            /\ mode' = mode
            /\ features_df' = features_df
            /\ randcache' = randcache]_vars

\* a failed sample_positive in test mode, with rows in the table but none held out
C10_Witness ==
    /\ last.op = "sample_positive"
    /\ last.outcome = "ValueError"
    /\ mode = "test"
    /\ Len(table) > 0
    /\ Len(features_df) = 0

IsAttempt ==
    /\ last'.op = "sample_background"
    /\ last'.outcome \in {"rejected", "sample", "ValueError"}

\* C14: the pool is refilled only when it is empty, every attempt of
\* sample_background (the first and each retry) removes exactly one candidate, the
\* one it uses, nothing else touches the pool, every candidate is a chromosome of
\* the genome and the pool never holds more than a batch.
C14_PoolDiscipline ==
    [][/\ \A i \in 1..Len(randcache') : randcache'[i] \in Chrs
       /\ Len(randcache') <= BatchSize
       /\ IF IsAttempt
          THEN IF Len(randcache) = 0
               THEN Len(randcache') = BatchSize - 1
               ELSE /\ randcache' = SubSeq(randcache, 1, Len(randcache) - 1)
                    /\ last'.chr = randcache[Len(randcache)]
          ELSE randcache' = randcache]_vars

\* a retry that took the last name of the pool without a refill
C14_Witness ==
    /\ last.op = "sample_background"
    /\ last.outcome = "rejected"
    /\ depth = 2
    /\ Len(randcache) = 0

\* C15: no operation changes the full table, the training indicator or the
\* feature-to-channel map, and set_mode changes nothing of the Sampler but the
\* active view.
C15_RecordSetReadOnly ==
    [][/\ table' = table
       /\ training_indices' = training_indices
       /\ features_map' = features_map
       /\ last'.op = "set_mode" =>
             UNCHANGED <<holdout_chrs, radius, window_size, padding, randcache,
                         pc, depth>>]_vars

\* a set_mode that narrowed the view after background sampling had filled the pool
C15_Witness ==
    /\ last.op = "set_mode"
    /\ mode = "train"
    /\ Len(features_df) < Len(table)
    /\ Len(randcache) > 0

----------------------------------------------------------------------------
(* GenomicFeatures on its own: is_positive and get_feature_data applied to *)
(* every window of a chromosome, over every table of a few rows            *)

\* rows in the table of the feature store
MaxStoreRows == 2

\* GenomicFeatures reads the chromosome, start, end and feature of a row only
StoreRows == {r \in BedRows : r.strand = "+"}

StoreTables == UNION {TablesOf(StoreRows, n) : n \in 0..MaxStoreRows}

\* thresholds 0, 1/2 and 1
Thresholds == {<<0, 1>>, <<1, 2>>, <<1, 1>>}

\* a call of is_positive or get_feature_data that has not returned yet
Called(op, chrom, start, end, strand, threshold) ==
    [NoCall EXCEPT
        !.op = op, !.outcome = "called", !.chr = chrom, !.start = start,
        !.end = end, !.strand = strand, !.threshold = threshold]

\* a feature store, and one call on a window [start, end) of a chromosome
FeaturesInit ==
    /\ \E t \in StoreTables : Construct(t, {}, 1, 3, "all")
    /\ \E chrom \in Chrs :
          \E start \in 0..(ChrLen(chrom) - 1) :
              \E end \in (start + 1)..ChrLen(chrom) :
                  \/ \E threshold \in Thresholds :
                        last = Called("is_positive", chrom, start, end, "none", threshold)
                  \/ \E strand \in BedStrands :
                        last = Called("get_feature_data", chrom, start, end, strand,
                                      <<0, 1>>)

IsPositiveCall ==
    /\ last.op = "is_positive"
    /\ last.outcome = "called"
    /\ last' = [last EXCEPT
                    !.outcome = "bool",
                    !.positive = is_positive(table, last.chr, last.start, last.end,
                                             last.threshold)]
    /\ UNCHANGED <<config, features_df, mode, randcache, pc, depth>>

GetFeatureDataCall ==
    /\ last.op = "get_feature_data"
    /\ last.outcome = "called"
    /\ last' =
          IF get_feature_data_raises(table, last.chr, last.strand)
          THEN [last EXCEPT !.outcome = "ValueError"]
          ELSE [last EXCEPT
                    !.outcome = "matrix",
                    !.labels = get_feature_data(table, features_map, last.chr,
                                                last.start, last.end, last.strand)]
    /\ UNCHANGED <<config, features_df, mode, randcache, pc, depth>>

FeaturesNext ==
    \/ IsPositiveCall
    \/ GetFeatureDataCall

SpecFeatures == FeaturesInit /\ [][FeaturesNext]_vars

\* the channel of a feature name
index_of(f) == features_map[f]

\* the rows of the table that overlap [start, end) on chrom
Overlapping(chrom, start, end) ==
    {i \in 1..Len(table) :
        table[i].chr = chrom /\ table[i].start < end /\ table[i].end > start}

\* C5: on the forward strand the label matrix holds a 1 at (k, channel) exactly
\* when some overlapping row of that channel has
\* row.start - start <= k < row.end - start, for every k in [0, end - start).
C5_ForwardRowsClipped ==
    (last.op = "get_feature_data" /\ last.outcome = "matrix" /\ last.strand = "+") =>
        \A k \in DOMAIN last.labels :
            \A ch \in DOMAIN last.labels[k] :
                (last.labels[k][ch] = 1) <=>
                    \E i \in Overlapping(last.chr, last.start, last.end) :
                        /\ index_of(table[i].feature) = ch
                        /\ table[i].start - last.start <= k
                        /\ k < table[i].end - last.start

\* C6: the label matrix of the reverse strand is the row-reversal of the label
\* matrix of the forward strand for the same chromosome, start and end.
C6_ReverseIsRowReversal ==
    (last.op = "get_feature_data" /\ last.outcome = "matrix" /\ last.strand = "-") =>
        last.labels = RowReverse(get_feature_data(table, features_map, last.chr,
                                                  last.start, last.end, "+"))

\* the overlap of a row with [start, end), clamped at 0
OverlapLength(row, start, end) ==
    Max(0, Min(row.end, end) - Max(row.start, start))

----------------------------------------------------------------------------
(* The padding of __init__ and the windows of _retrieve, over the radii    *)
(* and window sizes of the constructor                                     *)

\* largest window_size a Sampler is constructed with, besides the default
MaxWindowSize == 9

\* line 252: the defaults of radius and window_size
DefaultRadius == 100

DefaultWindowSize == 1001

Configurations ==
    ((1..MaxRadius) \X (1..MaxWindowSize)) \cup {<<DefaultRadius, DefaultWindowSize>>}

ConfigInit ==
    /\ \E c \in Configurations : Construct(<<>>, {}, c[1], c[2], "all")
    /\ last = NoCall

RetrieveCall(chrom, position, strand) ==
    /\ last' = retrieve("retrieve", 0, chrom, position, strand)
    /\ UNCHANGED <<config, features_df, mode, randcache, pc, depth>>

ConfigNext ==
    \E chrom \in Chrs, strand \in STRAND_SIDES :
        \E position \in 0..(ChrLen(chrom) - 1) :
            RetrieveCall(chrom, position, strand)

SpecConfig == ConfigInit /\ [][ConfigNext]_vars

\* C9: padding = max(0, (window_size - (2 * radius + 1)) / 2), truncated, and for
\* window_size >= 2 * radius + 1 with an even difference the sequence window of
\* _retrieve has length window_size.
C9_PaddingFillsWindow ==
    /\ padding = Max(0, (window_size - (2 * radius + 1)) \div 2)
    /\ (/\ last.op = "retrieve"
        /\ window_size >= 2 * radius + 1
        /\ (window_size - (2 * radius + 1)) % 2 = 0) =>
            last.seq_end - last.seq_start = window_size

----------------------------------------------------------------------------
(* Genome on its own: get_sequence applied to every interval that starts   *)
(* on a chromosome or up to MaxOverhang bases past its end                 *)

\* how far past the end of a chromosome start and end may lie
MaxOverhang == 2

\* pyfaidx's Sequence.reverse
ReverseSeq(seq) == [i \in 1..Len(seq) |-> seq[Len(seq) + 1 - i]]

\* pyfaidx's complement of one base
ComplementBase(b) ==
    CASE b = "A" -> "T"
      [] b = "T" -> "A"
      [] b = "G" -> "C"
      [] b = "C" -> "G"
      [] OTHER -> b

\* pyfaidx's Sequence.complement
ComplementSeq(seq) == [i \in 1..Len(seq) |-> ComplementBase(seq[i])]

\* self.genome[chrom][start:end].seq for 0 <= start <= len, start <= end <= len
Slice(chrom, start, end) == SubSeq(genome[chrom], start + 1, end)

\* lines 120-123: ValueError for a strand that is neither '+' nor '-', which
\* line 112 reaches only when start lies on the chromosome
get_sequence_raises(chrom, start, strand) ==
    ~ (start >= ChrLen(chrom)) /\ strand \notin {"+", "-"}

\* a get_sequence that reverses the reverse strand without complementing it
get_sequence_reversed_only(chrom, start, end, strand) ==
    IF start >= ChrLen(chrom) THEN <<>>
    ELSE LET clamped == Min(end, ChrLen(chrom))
         IN  IF strand = "+" THEN Slice(chrom, start, clamped)
             ELSE ReverseSeq(Slice(chrom, start, clamped))

\* the string get_sequence returns when it does not raise
get_sequence(chrom, start, end, strand) ==
    IF start >= ChrLen(chrom) THEN <<>>
    ELSE LET clamped == Min(end, ChrLen(chrom))
         IN  IF strand = "+" THEN Slice(chrom, start, clamped)
             ELSE ComplementSeq(ReverseSeq(Slice(chrom, start, clamped)))

\* one call of get_sequence on an interval [start, end) of a chromosome
GenomeInit ==
    /\ Construct(<<>>, {}, 1, 3, "all")
    /\ \E chrom \in Chrs :
          \E start \in 0..(ChrLen(chrom) + MaxOverhang) :
              \E end \in start..(ChrLen(chrom) + MaxOverhang) :
                  \E strand \in BedStrands :
                      last = Called("get_sequence", chrom, start, end, strand, <<0, 1>>)

GetSequenceCall ==
    /\ last.op = "get_sequence"
    /\ last.outcome = "called"
    /\ last' =
          IF get_sequence_raises(last.chr, last.start, last.strand)
          THEN [last EXCEPT !.outcome = "ValueError"]
          ELSE [last EXCEPT
                    !.outcome = "string",
                    !.sequence = get_sequence(last.chr, last.start, last.end,
                                              last.strand)]
    /\ UNCHANGED <<config, features_df, mode, randcache, pc, depth>>

GenomeNext == GetSequenceCall

SpecGenome == GenomeInit /\ [][GenomeNext]_vars

\* C11: get_sequence with a strand other than '+' and '-' fails (ValueError, the
\* InvalidStrand failure) whatever start and end are, also for a start at or past
\* the end of the chromosome.
C11_InvalidStrandAlwaysFails ==
    (/\ last.op = "get_sequence"
     /\ last.outcome # "called"
     /\ last.strand \notin STRAND_SIDES) => last.outcome = "ValueError"

\* the base-pair complement: A <-> T, G <-> C, any other symbol itself
BasePair(b) ==
    IF b = "A" THEN "T" ELSE IF b = "T" THEN "A"
    ELSE IF b = "G" THEN "C" ELSE IF b = "C" THEN "G" ELSE b

\* C12: for a strand '+' or '-', get_sequence with an end past the chromosome
\* returns what it returns with end = the chromosome length, and the string of
\* the '-' strand is the string of the '+' strand over the same interval, reversed
\* and base-pair complemented.
C12_ClampedAndReverseComplement ==
    (/\ last.op = "get_sequence"
     /\ last.outcome = "string"
     /\ last.strand \in STRAND_SIDES) =>
        LET forward == get_sequence(last.chr, last.start, last.end, "+")
            n == Len(forward)
        IN  /\ last.end > ChrLen(last.chr) =>
                  last.sequence = get_sequence(last.chr, last.start,
                                               ChrLen(last.chr), last.strand)
            /\ last.strand = "-" =>
                  /\ Len(last.sequence) = n
                  /\ \A i \in 1..n :
                        last.sequence[i] = BasePair(forward[n + 1 - i])

\* a '-' strand call with an end past the chromosome that returned bases
C12_Witness ==
    /\ last.op = "get_sequence"
    /\ last.outcome = "string"
    /\ last.strand = "-"
    /\ last.end > ChrLen(last.chr)
    /\ Len(last.sequence) >= 2
    /\ last.sequence # ReverseSeq(get_sequence(last.chr, last.start, last.end, "+"))

====
